---- MODULE Spec2Model ----
(***************************************************************************)
(* A model of FilmOneriAraci.py: the Gateway calls with retry, the feature *)
(* extractor, the corpus builder and the similarity ranker of              *)
(* get_recommendations.                                                    *)
(*                                                                         *)
(* Strings of the program are sequences of one-character strings, so that  *)
(* lower(), replace(" ", "") and " ".join are computed character by        *)
(* character.  A JSON object is a record with a field "has": the set of    *)
(* keys present; d[k] on an absent key raises KeyError, d.get(k, [])       *)
(* yields the default.  A call that may raise yields [exc, val].           *)
(***************************************************************************)
EXTENDS Integers, Sequences, FiniteSets, TLC

VARIABLES
    pc,                  \* the step the operation is at, or the step it ended in
    num_recommendations, \* parameter of get_recommendations
    max_search_results,  \* parameter of get_recommendations
    search_data,         \* search_movie's payload
    favorite_movie_id,   \* search_movie's id (NoneId when None)
    favorite_movie_name, \* search_movie's title
    fav_details,         \* the reference movie's three payloads
    fav_credits,
    fav_keywords,
    favorite_features,   \* extract_features of the reference
    all_movies,          \* summaries accumulated from the popular listing
    page,                \* next page of the popular listing
    requested,           \* log: for every page request, the page, len(all_movies) before it, what came
    popular_data,        \* the last popular page payload
    all_movies_filtered, \* all_movies without the reference id
    fetched,             \* log: per processed candidate, the truthiness of its payloads and its profile
    movie_data,          \* the candidate rows collected so far
    df,                  \* the corpus: reference row, then movie_data
    sim_scores,          \* (index, score) pairs after the sort
    recommended_indices, \* indices taken from sim_scores
    result,              \* the list returned
    outcome,             \* "running", "returned" or "raised"
    ranked,              \* TRUE once the vectorizer was called
    max_retries,         \* fetch_data_with_retry: parameters and loop state
    initial_delay,
    attempts,            \* log: outcome of every requests.get, in order
    sleeps,              \* log: every time.sleep(delay), in order
    fetch_result         \* what fetch_data_with_retry returned

vars == <<pc, num_recommendations, max_search_results, search_data, favorite_movie_id,
          favorite_movie_name, fav_details, fav_credits, fav_keywords,
          favorite_features, all_movies, page, requested, popular_data,
          all_movies_filtered, fetched, movie_data, df, sim_scores,
          recommended_indices, result, outcome, ranked, max_retries,
          initial_delay, attempts, sleeps, fetch_result>>

pipelineVars == <<num_recommendations, max_search_results, search_data, favorite_movie_id,
          favorite_movie_name, all_movies, page, requested, popular_data,
          all_movies_filtered, fetched, movie_data, df, sim_scores,
          recommended_indices, result, outcome, ranked>>

referenceVars == <<fav_details, fav_credits, fav_keywords, favorite_features>>

retryVars == <<max_retries, initial_delay, attempts, sleeps, fetch_result>>

\* ------------------------------------------------------------------ bounds

MaxGenres == 1        \* genres per bundle, extractor runs
MaxCast == 4          \* cast entries per bundle, extractor runs
MaxCrew == 2          \* crew entries per bundle, extractor runs
MaxKeywords == 1      \* keywords per bundle, extractor runs
MaxRetriesTried == 6  \* max_retries is drawn from 0..MaxRetriesTried
MaxDelayTried == 2    \* initial_delay is drawn from 1..MaxDelayTried
MaxId == 3            \* movie ids of the popular listing are 1..MaxId
MaxPageLen == 2       \* summaries per popular page, pipeline runs
MaxSearch == 2        \* max_search_results is drawn from 0..MaxSearch
MaxListed == 3        \* summaries the popular listing holds in all, pipeline runs
MaxCorpus == 3        \* candidates of a corpus, ranking runs
MaxK == 3             \* num_recommendations is drawn from -MaxNegK..MaxK
MaxNegK == 1
MaxSearchDeep == 27   \* max_search_results is drawn from 0..MaxSearchDeep, listing runs

\* --------------------------------------------------------------- strings

UpperToLower ==
    [c \in {"A","B","C","D","E","F","G","H","I","J","K","L","M",
            "N","O","P","Q","R","S","T","U","V","W","X","Y","Z"} |->
        CASE c = "A" -> "a" [] c = "B" -> "b" [] c = "C" -> "c" [] c = "D" -> "d"
          [] c = "E" -> "e" [] c = "F" -> "f" [] c = "G" -> "g" [] c = "H" -> "h"
          [] c = "I" -> "i" [] c = "J" -> "j" [] c = "K" -> "k" [] c = "L" -> "l"
          [] c = "M" -> "m" [] c = "N" -> "n" [] c = "O" -> "o" [] c = "P" -> "p"
          [] c = "Q" -> "q" [] c = "R" -> "r" [] c = "S" -> "s" [] c = "T" -> "t"
          [] c = "U" -> "u" [] c = "V" -> "v" [] c = "W" -> "w" [] c = "X" -> "x"
          [] c = "Y" -> "y" [] c = "Z" -> "z"]

UpperChars == DOMAIN UpperToLower

\* s.lower()
Lower(s) == [k \in 1..Len(s) |-> IF s[k] \in UpperChars THEN UpperToLower[s[k]] ELSE s[k]]

\* s.replace(" ", "")
RemoveSpaces(s) == SelectSeq(s, LAMBDA c : c # " ")

\* x.lower().replace(" ", "")
Normalize(s) == RemoveSpaces(Lower(s))

RECURSIVE Join(_)
\* " ".join(tokens)
Join(tokens) ==
    IF tokens = <<>> THEN <<>>
    ELSE IF Len(tokens) = 1 THEN tokens[1]
    ELSE tokens[1] \o <<" ">> \o Join(Tail(tokens))

Min(a, b) == IF a < b THEN a ELSE b
Max(a, b) == IF a > b THEN a ELSE b

\* seq[:n]
Take(seq, n) == SubSeq(seq, 1, IF Len(seq) < n THEN Len(seq) ELSE n)

\* ------------------------------------------------------------ JSON values

\* an entry of genres, cast or keywords: {"name": ...}, the key possibly absent
Entry(n) == [has |-> {"name"}, name |-> n, job |-> "-"]
EntryNoName == [has |-> {}, name |-> <<>>, job |-> "-"]
\* an entry of crew: {"name": ..., "job": ...}
Crew(n, j) == [has |-> {"name", "job"}, name |-> n, job |-> j]
CrewNoJob(n) == [has |-> {"name"}, name |-> n, job |-> "-"]
CrewNoName(j) == [has |-> {"job"}, name |-> <<>>, job |-> j]

\* a variable not assigned yet
Unset == [kind |-> "unset", has |-> {}, genres |-> <<>>, cast |-> <<>>,
          crew |-> <<>>, keywords |-> <<>>, results |-> <<>>]
\* fetch_data_with_retry returned None
NoData == [kind |-> "None", has |-> {}, genres |-> <<>>, cast |-> <<>>,
           crew |-> <<>>, keywords |-> <<>>, results |-> <<>>]
\* a JSON object with the keys of `has`
Payload(has, genres, cast, crew, keywords, results) ==
    [kind |-> "dict", has |-> has, genres |-> genres, cast |-> cast,
     crew |-> crew, keywords |-> keywords, results |-> results]
Details(genres) == Payload({"id", "genres"}, genres, <<>>, <<>>, <<>>, <<>>)
Credits(cast, crew) == Payload({"id", "cast", "crew"}, <<>>, cast, crew, <<>>, <<>>)
Keywords(kws) == Payload({"id", "keywords"}, <<>>, <<>>, <<>>, kws, <<>>)
BareObject == Payload({"id"}, <<>>, <<>>, <<>>, <<>>, <<>>)
EmptyObject == Payload({}, <<>>, <<>>, <<>>, <<>>, <<>>)

\* Python truthiness of a payload: None and {} are falsy
Truthy(p) == p.kind = "dict" /\ p.has # {}

\* d.get(key, [])
Get(d, key) == IF key \in d.has THEN d[key] ELSE <<>>

\* ------------------------------------------------------- extract_features

\* [genre['name'] for genre in movie_details.get('genres', [])] and its like
Names(entries) == [k \in 1..Len(entries) |-> entries[k].name]
MissingName(entries) == \E k \in 1..Len(entries) : "name" \notin entries[k].has

\* the crew entries the comprehension of line 58 keeps
Directors(crew) == SelectSeq(crew, LAMBDA c : c.job = "Director")

\* the mutant: the cast is not cut to its first three
ExtractCast_All(movie_credits) == Get(movie_credits, "cast")
ExtractCast(movie_credits) == Take(Get(movie_credits, "cast"), 3)

\* if director: features.append(...)
DirectorTokens(director) == IF director # <<>> THEN <<Normalize(director)>> ELSE <<>>

NormalizeAll(names) == [k \in 1..Len(names) |-> Normalize(names[k])]

extract_features(movie_details, movie_credits, movie_keywords) ==
    LET genres == Get(movie_details, "genres")
        cast == ExtractCast(movie_credits)
        crew == Get(movie_credits, "crew")
        keywords == Get(movie_keywords, "keywords")
        keyError ==
            \/ MissingName(genres)
            \/ MissingName(cast)
            \/ \E k \in 1..Len(crew) : "job" \notin crew[k].has
            \/ MissingName(Directors(crew))
            \/ MissingName(keywords)
        dnames == Names(Directors(crew))
        director == IF dnames # <<>> THEN dnames[1] ELSE <<>>
        features == NormalizeAll(Names(genres)) \o NormalizeAll(Names(cast))
                    \o DirectorTokens(director) \o NormalizeAll(Names(keywords))
    IN IF keyError THEN [exc |-> TRUE, val |-> <<>>]
       ELSE [exc |-> FALSE, val |-> Join(features)]

\* ------------------------------------------------- fetch_data_with_retry

DefaultMaxRetries == 5
DefaultInitialDelay == 1

RECURSIVE Pow2(_)
Pow2(n) == IF n <= 0 THEN 1 ELSE 2 * Pow2(n - 1)

\* the mutant: a linear backoff
BackoffDelay_Linear(delay0, i) == delay0 * (i + 1)
\* delay = initial_delay * (2 ** i)
BackoffDelay(delay0, i) == delay0 * Pow2(i)

\* what response.json() may hold in the retry runs
RetryPayloads == {BareObject, EmptyObject, Details(<<>>)}

Attempt(ok, payload) == [ok |-> ok, payload |-> payload]

RetryInputs ==
    /\ pc = "retry"
    /\ max_retries \in 0..MaxRetriesTried
    /\ initial_delay \in 1..MaxDelayTried
    /\ attempts = <<>>
    /\ sleeps = <<>>
    /\ fetch_result = NoData

\* range(max_retries) is empty: the loop body never runs, the function falls
\* off its end and returns None
RetryNoAttempt ==
    /\ pc = "retry"
    /\ max_retries <= 0
    /\ pc' = "retry_done"
    /\ fetch_result' = NoData
    /\ UNCHANGED <<max_retries, initial_delay, attempts, sleeps>>

\* requests.get succeeds: return response.json()
RetrySucceed ==
    /\ pc = "retry"
    /\ Len(attempts) < max_retries
    /\ \E p \in RetryPayloads :
        /\ attempts' = Append(attempts, Attempt(TRUE, p))
        /\ fetch_result' = p
    /\ pc' = "retry_done"
    /\ UNCHANGED <<max_retries, initial_delay, sleeps>>

\* RequestException with i < max_retries - 1: sleep, then the next attempt
RetryFailSleep ==
    /\ pc = "retry"
    /\ Len(attempts) < max_retries
    /\ Len(attempts) < max_retries - 1
    /\ attempts' = Append(attempts, Attempt(FALSE, NoData))
    /\ sleeps' = Append(sleeps, BackoffDelay(initial_delay, Len(attempts)))
    /\ UNCHANGED <<pc, max_retries, initial_delay, fetch_result>>

\* RequestException on the last attempt: return None
RetryFailLast ==
    /\ pc = "retry"
    /\ Len(attempts) < max_retries
    /\ ~(Len(attempts) < max_retries - 1)
    /\ attempts' = Append(attempts, Attempt(FALSE, NoData))
    /\ fetch_result' = NoData
    /\ pc' = "retry_done"
    /\ UNCHANGED <<max_retries, initial_delay, sleeps>>

\* ------------------------------------------------- idle parts of a run

IdlePipeline ==
    /\ num_recommendations = 5
    /\ max_search_results = 100
    /\ search_data = Unset
    /\ favorite_movie_id = 0 - 1
    /\ favorite_movie_name = <<>>
    /\ all_movies = <<>>
    /\ page = 1
    /\ requested = <<>>
    /\ popular_data = Unset
    /\ all_movies_filtered = <<>>
    /\ fetched = <<>>
    /\ movie_data = <<>>
    /\ df = <<>>
    /\ sim_scores = <<>>
    /\ recommended_indices = <<>>
    /\ result = <<>>
    /\ outcome = "running"
    /\ ranked = FALSE

IdleReference ==
    /\ fav_details = Unset
    /\ fav_credits = Unset
    /\ fav_keywords = Unset
    /\ favorite_features = <<>>

IdleRetry ==
    /\ max_retries = DefaultMaxRetries
    /\ initial_delay = DefaultInitialDelay
    /\ attempts = <<>>
    /\ sleeps = <<>>
    /\ fetch_result = NoData

\* ------------------------------------------- fetch_data_with_retry alone

NextRetry ==
    \/ RetryNoAttempt /\ UNCHANGED <<pipelineVars, referenceVars>>
    \/ RetrySucceed /\ UNCHANGED <<pipelineVars, referenceVars>>
    \/ RetryFailSleep /\ UNCHANGED <<pipelineVars, referenceVars>>
    \/ RetryFailLast /\ UNCHANGED <<pipelineVars, referenceVars>>

InitRetry == RetryInputs /\ IdlePipeline /\ IdleReference

SpecRetry == InitRetry /\ [][NextRetry]_vars

\* ------------------------------------------------ extract_features alone

nameTom == <<"T","o","m"," ","H","a","r","d","y">>
nameNolan == <<"C","h","r","i","s","t","o","p","h","e","r"," ","N","o","l","a","n">>
nameSciFi == <<"S","c","i","e","n","c","e"," ","F","i","c","t","i","o","n">>
nameDream == <<"d","r","e","a","m">>
nameAb == <<"A","b">>
nameCd == <<"C"," ","d">>
nameGo == <<"G","o">>

\* sequences over S of length at most n
SeqsUpTo(S, n) == UNION {[1..m -> S] : m \in 0..n}

ExtractNames == {nameAb, nameCd}
ExtractJobs == {"Director", "director"}
ExtractDirectorNames == {nameAb, <<>>}

ScenarioDetails == Details(<<Entry(nameSciFi)>>)
ScenarioCredits == Credits(<<Entry(nameTom)>>, <<Crew(nameNolan, "Director")>>)
ScenarioKeywords == Keywords(<<Entry(nameDream)>>)

ExtractInputs ==
    /\ pc = "extract"
    /\ \/ /\ fav_details \in {Details(g) : g \in SeqsUpTo({Entry(n) : n \in ExtractNames}, MaxGenres)}
          /\ fav_credits \in {Credits(c, w) :
                c \in SeqsUpTo({Entry(n) : n \in ExtractNames}, MaxCast),
                w \in SeqsUpTo({Crew(n, j) : n \in ExtractDirectorNames, j \in ExtractJobs}, MaxCrew)}
          /\ fav_keywords \in {Keywords(k) : k \in SeqsUpTo({Entry(n) : n \in ExtractNames}, MaxKeywords)}
       \/ /\ fav_details = ScenarioDetails
          /\ fav_credits = ScenarioCredits
          /\ fav_keywords = ScenarioKeywords
    /\ favorite_features = <<>>

\* favorite_features = extract_features(fav_details, fav_credits, fav_keywords)
ExtractCall ==
    /\ pc = "extract"
    /\ LET r == extract_features(fav_details, fav_credits, fav_keywords)
       IN /\ favorite_features' = r.val
          /\ pc' = IF r.exc THEN "extract_raised" ELSE "extract_done"
    /\ UNCHANGED <<fav_details, fav_credits, fav_keywords>>

NextExtract == ExtractCall /\ UNCHANGED <<pipelineVars, retryVars>>

InitExtract == ExtractInputs /\ IdlePipeline /\ IdleRetry

SpecExtract == InitExtract /\ [][NextExtract]_vars

\* --------------------------------------- TfidfVectorizer, cosine_similarity

\* characters the token pattern (?u)\b\w\w+\b does not match
NonWordChars == {" ", "-", ".", ",", "'", ":", "&", "!"}

\* sklearn's ENGLISH_STOP_WORDS, the words of it the runs can form
StopWords == {<<"g","o">>, <<"h","e">>, <<"w","e">>, <<"c","r","y">>,
              <<"f","i","r","e">>, <<"b","i","l","l">>, <<"c","a","l","l">>}

RECURSIVE WordRuns(_, _)
\* the maximal runs of word characters of s
WordRuns(s, cur) ==
    LET flush == IF cur = <<>> THEN <<>> ELSE <<cur>>
    IN IF Len(s) = 0 THEN flush
       ELSE IF Head(s) \in NonWordChars THEN flush \o WordRuns(Tail(s), <<>>)
       ELSE WordRuns(Tail(s), Append(cur, Head(s)))

\* the analyzer: lowercase, tokens of two or more word characters, no stop words
Terms(doc) ==
    SelectSeq(WordRuns(Lower(doc), <<>>), LAMBDA t : Len(t) >= 2 /\ t \notin StopWords)

\* the tokens of every document, each analysed once
TermLists(docs) == SubSeq([d \in 1..Len(docs) |-> Terms(docs[d])], 1, Len(docs))

\* vocabulary_ after fit: every term of every document
Vocabulary(terms) == UNION {{terms[d][k] : k \in 1..Len(terms[d])} : d \in 1..Len(terms)}

Tf(termList, t) == Cardinality({k \in 1..Len(termList) : termList[k] = t})
Df(terms, t) == Cardinality({d \in 1..Len(terms) : Tf(terms[d], t) > 0})

\* 10 * ln(n), rounded, for n = 1..12
LnTimes10 == <<0, 7, 11, 14, 16, 18, 19, 21, 22, 23, 24, 25>>

\* smooth idf: ln((1 + n) / (1 + df)) + 1, in tenths
Idf(n, dfreq) == 10 + LnTimes10[1 + n] - LnTimes10[1 + dfreq]

RECURSIVE SumFn(_)
SumFn(f) ==
    IF DOMAIN f = {} THEN 0
    ELSE LET x == CHOOSE y \in DOMAIN f : TRUE
         IN f[x] + SumFn([y \in DOMAIN f \ {x} |-> f[y]])

\* tfidf_matrix before normalisation: row d, column t is tf * idf
TfidfMatrix(terms) ==
    LET vocab == Vocabulary(terms)
        idf == [t \in vocab |-> Idf(Len(terms), Df(terms, t))]
    IN SubSeq([d \in 1..Len(terms) |-> [t \in vocab |-> Tf(terms[d], t) * idf[t]]],
              1, Len(terms))

Dot(u, v) == SumFn([t \in DOMAIN u |-> u[t] * v[t]])

\* cosine_sim[0][j-1], as the fraction num/den = (v1.vj)^2 / |vj|^2: the square
\* of the cosine times |v1|^2, which is the same for every j and positive
\* whenever a score is; a zero vector scores 0
Score(matrix, j) ==
    LET d == Dot(matrix[1], matrix[j])
        nj == Dot(matrix[j], matrix[j])
    IN IF nj = 0 \/ d = 0 THEN [num |-> 0, den |-> 1] ELSE [num |-> d * d, den |-> nj]

ScoreGreater(a, b) == a.num * b.den > b.num * a.den
ScoreEqual(a, b) == a.num * b.den = b.num * a.den

\* list(enumerate(cosine_sim[0]))[1:] : Python index j-1 with its score
Enumerated(matrix) ==
    SubSeq([j \in 1..(Len(matrix) - 1) |-> [idx |-> j, score |-> Score(matrix, j + 1)]],
           1, Len(matrix) - 1)

\* the mutant: equal scores leave the later entry first, as a sort ascending
\* followed by a reversal would
InsertDesc_TiesReversed(sorted, x) ==
    LET later == {k \in 1..Len(sorted) : ~ScoreGreater(sorted[k].score, x.score)}
        pos == IF later = {} THEN Len(sorted) + 1
               ELSE CHOOSE k \in later : \A m \in later : k <= m
    IN SubSeq(sorted, 1, pos - 1) \o <<x>> \o SubSeq(sorted, pos, Len(sorted))
\* x goes in front of the first entry it beats: after every entry of equal score
InsertDesc(sorted, x) ==
    LET later == {k \in 1..Len(sorted) : ScoreGreater(x.score, sorted[k].score)}
        pos == IF later = {} THEN Len(sorted) + 1
               ELSE CHOOSE k \in later : \A m \in later : k <= m
    IN SubSeq(sorted, 1, pos - 1) \o <<x>> \o SubSeq(sorted, pos, Len(sorted))

RECURSIVE SortedDesc(_)
\* sorted(sim_scores, key=lambda x: x[1], reverse=True): stable
SortedDesc(seq) ==
    IF Len(seq) = 0 THEN <<>>
    ELSE InsertDesc(SortedDesc(SubSeq(seq, 1, Len(seq) - 1)), seq[Len(seq)])

\* the mutant: the slice is forgotten
PySlice_All(seq, k) == seq
\* seq[:k] of Python: a negative k counts from the end
PySlice(seq, k) ==
    IF k >= 0 THEN Take(seq, k)
    ELSE Take(seq, IF Len(seq) + k > 0 THEN Len(seq) + k ELSE 0)

\* ------------------------------------------------------ the Gateway's data

NoneId == 0 - 1
FavId == 1
Title(id) == <<"T", id>>

Summary(id) == [has |-> {"id", "title"}, id |-> id, title |-> Title(id)]
SummaryNoTitle(id) == [has |-> {"id"}, id |-> id, title |-> <<>>]
SummaryNoId(id) == [has |-> {"title"}, id |-> NoneId, title |-> Title(id)]

Results(rs) == Payload({"page", "results"}, <<>>, <<>>, <<>>, <<>>, rs)

SearchPool ==
    {NoData, EmptyObject, BareObject, Results(<<>>), Results(<<Summary(FavId), Summary(2)>>),
     Results(<<Summary(0)>>), Results(<<SummaryNoTitle(FavId)>>), Results(<<SummaryNoId(FavId)>>)}

\* what the three fetches of one movie may return together
Bundle(d, c, k) == [details |-> d, credits |-> c, keywords |-> k]
BundleAb == Bundle(Details(<<Entry(nameAb)>>), Credits(<<>>, <<>>), Keywords(<<>>))
BundleAbCd == Bundle(Details(<<Entry(nameAb)>>), Credits(<<Entry(nameCd)>>, <<>>), BareObject)
BundleGo == Bundle(BareObject, Credits(<<>>, <<Crew(nameGo, "Director")>>), Keywords(<<>>))
BundleEmpty == Bundle(Details(<<>>), BareObject, Keywords(<<>>))
GoodBundles == {BundleAb, BundleEmpty}
FailedBundles ==
    {Bundle(NoData, Credits(<<>>, <<>>), Keywords(<<>>)),
     Bundle(Details(<<Entry(nameAb)>>), NoData, Keywords(<<>>)),
     Bundle(Details(<<Entry(nameAb)>>), Credits(<<>>, <<>>), NoData),
     Bundle(EmptyObject, Credits(<<>>, <<>>), Keywords(<<>>))}
MalformedBundles ==
    {Bundle(Details(<<EntryNoName>>), Credits(<<>>, <<>>), Keywords(<<>>)),
     Bundle(Details(<<>>), Credits(<<>>, <<CrewNoJob(nameAb)>>), Keywords(<<>>)),
     Bundle(Details(<<>>), Credits(<<>>, <<CrewNoName("Director")>>), Keywords(<<>>)),
     Bundle(Details(<<>>), Credits(<<>>, <<>>), Keywords(<<EntryNoName>>))}
BundlePool == GoodBundles \cup FailedBundles \cup MalformedBundles

PageSummaries == {Summary(id) : id \in 1..MaxId}
\* Movie ids are only compared for equality (line 107) and carried into the
\* rows (line 124), so a listing is taken up to the renaming of the movies
\* other than the reference: a new id is the one after the last new id.
ListedInOrder(listed) ==
    \A j \in 1..Len(listed) :
        listed[j].id > FavId + 1 => \E i \in 1..(j - 1) : listed[i].id = listed[j].id - 1
\* the pages the listing may return once it has returned the summaries `listed`
PagePool(listed) ==
    {NoData, BareObject, Results(<<SummaryNoTitle(2)>>), Results(<<SummaryNoId(2)>>)}
    \cup {Results(rs) : rs \in {p \in SeqsUpTo(PageSummaries, Min(MaxPageLen, MaxListed - Len(listed))) :
                                    ListedInOrder(listed \o p)}}

\* --------------------------------------------------- get_recommendations

PageCeiling == 500 \div 20

Row(id, title, features) == [id |-> id, title |-> title, features |-> features]

\* return list: pc stays at the step that returned
Return(list) ==
    /\ outcome' = "returned"
    /\ result' = list

\* an exception leaves get_recommendations: pc stays at the step that raised
Raise(kind) ==
    /\ outcome' = kind
    /\ result' = <<>>

Continue(step) ==
    /\ pc' = step
    /\ UNCHANGED <<outcome, result>>

PipelineInputs ==
    /\ pc = "search"
    /\ num_recommendations \in (0 - MaxNegK)..MaxK
    /\ max_search_results \in 0..MaxSearch
    /\ search_data = Unset
    /\ favorite_movie_id = NoneId
    /\ favorite_movie_name = <<>>
    /\ all_movies = <<>>
    /\ page = 1
    /\ requested = <<>>
    /\ popular_data = Unset
    /\ all_movies_filtered = <<>>
    /\ fetched = <<>>
    /\ movie_data = <<>>
    /\ df = <<>>
    /\ sim_scores = <<>>
    /\ recommended_indices = <<>>
    /\ result = <<>>
    /\ outcome = "running"
    /\ ranked = FALSE

\* lines 73-78, with search_movie (lines 25-33)
SearchMovie ==
    /\ pc = "search" /\ outcome = "running"
    /\ \E data \in SearchPool :
        /\ search_data' = data
        /\ IF ~Truthy(data) THEN
               Return(<<>>) /\ UNCHANGED <<pc, favorite_movie_id, favorite_movie_name>>
           ELSE IF "results" \notin data.has THEN
               Raise("KeyError") /\ UNCHANGED <<pc, favorite_movie_id, favorite_movie_name>>
           ELSE IF data.results = <<>> THEN
               Return(<<>>) /\ UNCHANGED <<pc, favorite_movie_id, favorite_movie_name>>
           ELSE LET first_result == data.results[1]
                IN IF {"id", "title"} \subseteq first_result.has THEN
                       /\ favorite_movie_id' = first_result.id
                       /\ favorite_movie_name' = first_result.title
                       /\ IF first_result.id = 0 THEN Return(<<>>) /\ UNCHANGED pc
                          ELSE Continue("reference")
                   ELSE Raise("KeyError")
                        /\ UNCHANGED <<pc, favorite_movie_id, favorite_movie_name>>
    /\ UNCHANGED <<num_recommendations, max_search_results, all_movies, page, requested,
                   popular_data, all_movies_filtered, fetched, movie_data, df, sim_scores,
                   recommended_indices, ranked, referenceVars>>

\* lines 80-92
ReferenceProfile ==
    /\ pc = "reference" /\ outcome = "running"
    /\ \E b \in BundlePool : LET d == b.details  c == b.credits  k == b.keywords IN
        /\ fav_details' = d
        /\ fav_credits' = c
        /\ fav_keywords' = k
        /\ IF ~Truthy(d) \/ ~Truthy(c) \/ ~Truthy(k) THEN
               Return(<<>>) /\ UNCHANGED <<pc, favorite_features>>
           ELSE LET r == extract_features(d, c, k)
                IN IF r.exc THEN Raise("KeyError") /\ UNCHANGED <<pc, favorite_features>>
                   ELSE /\ favorite_features' = r.val
                        /\ IF r.val = <<>> THEN Return(<<>>) /\ UNCHANGED pc
                           ELSE Continue("listing")
    /\ UNCHANGED <<num_recommendations, max_search_results, search_data, favorite_movie_id,
                   favorite_movie_name, all_movies, page, requested, popular_data,
                   all_movies_filtered, fetched, movie_data, df, sim_scores,
                   recommended_indices, ranked>>

\* the mutant: the listing loop ignores the page ceiling
ListingContinues_NoCeiling(have, wanted, p) == have < wanted
\* while len(all_movies) < max_search_results and page <= 500 // 20
ListingContinues(have, wanted, p) == have < wanted /\ p <= PageCeiling

Request(p, have, got) == [page |-> p, have |-> have, got |-> got]

\* one pass of the loop of lines 97-105
PopularPage(pool) ==
    /\ pc = "listing" /\ outcome = "running"
    /\ ListingContinues(Len(all_movies), max_search_results, page)
    /\ \E data \in pool :
        /\ popular_data' = data
        /\ IF ~Truthy(data) THEN
               /\ requested' = Append(requested, Request(page, Len(all_movies), "none"))
               /\ Continue("filter")
               /\ UNCHANGED <<all_movies, page>>
           ELSE IF "results" \notin data.has THEN
               /\ requested' = Append(requested, Request(page, Len(all_movies), "nokey"))
               /\ Raise("KeyError")
               /\ UNCHANGED <<pc, all_movies, page>>
           ELSE IF data.results = <<>> THEN
               /\ requested' = Append(requested, Request(page, Len(all_movies), "empty"))
               /\ Continue("filter")
               /\ UNCHANGED <<all_movies, page>>
           ELSE /\ requested' = Append(requested, Request(page, Len(all_movies), "page"))
                /\ all_movies' = all_movies \o data.results
                /\ page' = page + 1
                /\ UNCHANGED <<pc, outcome, result>>
    /\ UNCHANGED <<num_recommendations, max_search_results, search_data, favorite_movie_id,
                   favorite_movie_name, all_movies_filtered, fetched, movie_data, df,
                   sim_scores, recommended_indices, ranked, referenceVars>>

\* the mutant: the reference id is not removed
KeepCandidate_All(m, favId) == TRUE
\* m['id'] != favorite_movie_id
KeepCandidate(m, favId) == m.id # favId

\* lines 107-111, once the loop has ended
FilterCandidates ==
    /\ outcome = "running"
    /\ \/ pc = "filter"
       \/ pc = "listing" /\ ~ListingContinues(Len(all_movies), max_search_results, page)
    /\ IF \E k \in 1..Len(all_movies) : "id" \notin all_movies[k].has THEN
           Raise("KeyError") /\ pc' = "filter" /\ UNCHANGED all_movies_filtered
       ELSE LET kept == SelectSeq(all_movies, LAMBDA m : KeepCandidate(m, favorite_movie_id))
            IN /\ all_movies_filtered' = kept
               /\ IF kept = <<>> THEN Return(<<>>) /\ pc' = "filter"
                  ELSE Continue("candidates")
    /\ UNCHANGED <<num_recommendations, max_search_results, search_data, favorite_movie_id,
                   favorite_movie_name, all_movies, page, requested, popular_data,
                   fetched, movie_data, df, sim_scores, recommended_indices, ranked,
                   referenceVars>>

\* the mutant: a candidate with an empty profile is kept
KeepProfile_Always(features) == TRUE
\* if features:
KeepProfile(features) == features # <<>>

\* the mutant: the newest row goes first
AddRow_Front(rows, row) == <<row>> \o rows
\* movie_data.append({...})
AddRow(rows, row) == Append(rows, row)

\* one pass of the loop of lines 115-129
ProcessCandidate ==
    /\ pc = "candidates" /\ outcome = "running"
    /\ Len(fetched) < Len(all_movies_filtered)
    /\ LET movie == all_movies_filtered[Len(fetched) + 1]
       IN \E b \in BundlePool :
           LET d == b.details  c == b.credits  k == b.keywords
               data == Truthy(d) /\ Truthy(c) /\ Truthy(k)
               r == IF data THEN extract_features(d, c, k) ELSE [exc |-> FALSE, val |-> <<>>]
           IN /\ fetched' = Append(fetched, [id |-> movie.id, data |-> data,
                                             exc |-> r.exc, features |-> r.val])
              /\ IF r.exc THEN Raise("KeyError") /\ UNCHANGED <<pc, movie_data>>
                 ELSE IF data /\ KeepProfile(r.val) THEN
                     IF "title" \in movie.has THEN
                         /\ movie_data' = AddRow(movie_data, Row(movie.id, movie.title, r.val))
                         /\ UNCHANGED <<pc, outcome, result>>
                     ELSE Raise("KeyError") /\ UNCHANGED <<pc, movie_data>>
                 ELSE UNCHANGED <<movie_data, pc, outcome, result>>
    /\ UNCHANGED <<num_recommendations, max_search_results, search_data, favorite_movie_id,
                   favorite_movie_name, all_movies, page, requested, popular_data,
                   all_movies_filtered, df, sim_scores, recommended_indices, ranked,
                   referenceVars>>

\* lines 131-151, once every candidate was processed
Rank ==
    /\ pc = "candidates" /\ outcome = "running"
    /\ Len(fetched) = Len(all_movies_filtered)
    /\ pc' = "rank"
    /\ IF movie_data = <<>> THEN
           Return(<<>>) /\ UNCHANGED <<df, ranked, sim_scores, recommended_indices>>
       ELSE LET corpus == <<Row(favorite_movie_id, favorite_movie_name, favorite_features)>>
                          \o movie_data
                terms == TermLists([j \in 1..Len(corpus) |-> corpus[j].features])
            IN /\ df' = corpus
               /\ ranked' = TRUE
               /\ IF Vocabulary(terms) = {} THEN
                      Raise("ValueError") /\ UNCHANGED <<sim_scores, recommended_indices>>
                  ELSE LET sorted == SortedDesc(Enumerated(TfidfMatrix(terms)))
                           top == PySlice(sorted, num_recommendations)
                       IN /\ sim_scores' = sorted
                          /\ recommended_indices' = [j \in 1..Len(top) |-> top[j].idx]
                          /\ Return([j \in 1..Len(top) |-> corpus[top[j].idx + 1].title])
    /\ UNCHANGED <<num_recommendations, max_search_results, search_data, favorite_movie_id,
                   favorite_movie_name, all_movies, page, requested, popular_data,
                   all_movies_filtered, fetched, movie_data, referenceVars>>

Init == PipelineInputs /\ IdleReference /\ IdleRetry

Next ==
    \/ SearchMovie /\ UNCHANGED retryVars
    \/ ReferenceProfile /\ UNCHANGED retryVars
    \/ PopularPage(PagePool(all_movies)) /\ UNCHANGED retryVars
    \/ FilterCandidates /\ UNCHANGED retryVars
    \/ ProcessCandidate /\ UNCHANGED retryVars
    \/ Rank /\ UNCHANGED retryVars

Spec == Init /\ [][Next]_vars

\* ------------------------------------------------ the listing loop alone

\* a listing of one-movie pages, long enough to meet the page ceiling
DeepPagePool == {NoData, BareObject, Results(<<>>), Results(<<Summary(2)>>)}

\* the state at line 94, the reference profile built
ListingInputs ==
    /\ pc = "listing"
    /\ num_recommendations = 5
    /\ max_search_results \in 0..MaxSearchDeep
    /\ search_data = Results(<<Summary(FavId)>>)
    /\ favorite_movie_id = FavId
    /\ favorite_movie_name = Title(FavId)
    /\ fav_details = Details(<<Entry(nameAb)>>)
    /\ fav_credits = Credits(<<>>, <<>>)
    /\ fav_keywords = Keywords(<<>>)
    /\ favorite_features = extract_features(fav_details, fav_credits, fav_keywords).val
    /\ all_movies = <<>>
    /\ page = 1
    /\ requested = <<>>
    /\ popular_data = Unset
    /\ all_movies_filtered = <<>>
    /\ fetched = <<>>
    /\ movie_data = <<>>
    /\ df = <<>>
    /\ sim_scores = <<>>
    /\ recommended_indices = <<>>
    /\ result = <<>>
    /\ outcome = "running"
    /\ ranked = FALSE

InitListing == ListingInputs /\ IdleRetry

NextListing ==
    \/ PopularPage(DeepPagePool) /\ UNCHANGED retryVars
    \/ FilterCandidates /\ UNCHANGED retryVars

SpecListing == InitListing /\ [][NextListing]_vars

\* ----------------------------------------------------- the ranker alone

\* the bundles the corpora of the ranking runs are built from
RankBundles == {BundleAb, BundleAbCd, BundleGo, BundleEmpty}

Profile(b) == extract_features(b.details, b.credits, b.keywords).val

\* the log entry and the row of a candidate whose fetches all brought data
FetchedOk(id, b) == [id |-> id, data |-> TRUE, exc |-> FALSE, features |-> Profile(b)]

\* the state at line 131: the reference profile built, one popular page
\* listed, candidate j (movie j + 1) processed with bundle bs[j]
RankInputs ==
    /\ pc = "candidates"
    /\ num_recommendations \in (0 - MaxNegK)..MaxK
    /\ search_data = Results(<<Summary(FavId)>>)
    /\ favorite_movie_id = FavId
    /\ favorite_movie_name = Title(FavId)
    /\ \E b \in RankBundles \ {BundleEmpty} :
        /\ fav_details = b.details
        /\ fav_credits = b.credits
        /\ fav_keywords = b.keywords
        /\ favorite_features = Profile(b)
    /\ \E bs \in SeqsUpTo(RankBundles, MaxCorpus) :
        /\ bs # <<>>
        /\ all_movies = [j \in 1..Len(bs) |-> Summary(j + 1)]
        /\ fetched = [j \in 1..Len(bs) |-> FetchedOk(j + 1, bs[j])]
    /\ max_search_results = Len(all_movies)
    /\ page = 2
    /\ requested = <<Request(1, 0, "page")>>
    /\ popular_data = Results(all_movies)
    /\ all_movies_filtered = all_movies
    /\ movie_data =
        LET kept == SelectSeq(fetched, LAMBDA f : KeepProfile(f.features))
        IN [a \in 1..Len(kept) |-> Row(kept[a].id, Title(kept[a].id), kept[a].features)]
    /\ df = <<>>
    /\ sim_scores = <<>>
    /\ recommended_indices = <<>>
    /\ result = <<>>
    /\ outcome = "running"
    /\ ranked = FALSE

InitRank == RankInputs /\ IdleRetry

NextRank == Rank /\ UNCHANGED retryVars

SpecRank == InitRank /\ [][NextRank]_vars

\* ================================================================ claims

RetryDone == pc = "retry_done"
FailedAttempts == {i \in 1..Len(attempts) : ~attempts[i].ok}

\* C7: fetch_data_with_retry makes at most max_retries attempts, stops at the
\* first attempt that succeeds and returns its payload, sleeps
\* initial_delay * 2^i after failed attempt i (from 0) unless it was the last
\* one allowed, and returns None once max_retries attempts have failed.
C7_RetryContract ==
    /\ Len(attempts) <= Max(max_retries, 0)
    /\ \A i \in 1..Len(attempts) : attempts[i].ok => i = Len(attempts) /\ RetryDone
    /\ Len(sleeps) = Cardinality({i \in FailedAttempts : i < max_retries})
    /\ \A i \in 1..Len(sleeps) : sleeps[i] = initial_delay * Pow2(i - 1)
    /\ RetryDone =>
        IF Len(attempts) > 0 /\ attempts[Len(attempts)].ok
        THEN fetch_result = attempts[Len(attempts)].payload
        ELSE /\ fetch_result = NoData
             /\ Len(attempts) = Max(max_retries, 0)
    /\ ~RetryDone => FailedAttempts = 1..Len(attempts)

\* C7's case: the default five attempts all fail, four sleeps of 1, 2, 4, 8
C7_Witness ==
    /\ RetryDone
    /\ max_retries = DefaultMaxRetries
    /\ initial_delay = DefaultInitialDelay
    /\ Len(attempts) = 5
    /\ FailedAttempts = 1..5
    /\ sleeps = <<1, 2, 4, 8>>
    /\ fetch_result = NoData

\* --- C8

ExtractDone == pc = "extract_done"

FirstDirector ==
    LET ds == Directors(Get(fav_credits, "crew"))
    IN IF ds = <<>> THEN <<>> ELSE <<ds[1].name>>

\* the tokens as the claim lists them: every genre, the first three cast, the
\* first Director if there is one, every keyword
ClaimedTokens ==
    NormalizeAll(Names(Get(fav_details, "genres")))
    \o NormalizeAll(Names(Take(Get(fav_credits, "cast"), 3)))
    \o NormalizeAll(FirstDirector)
    \o NormalizeAll(Names(Get(fav_keywords, "keywords")))

\* the same, the first Director left out when its name is the empty string
AmendedTokens ==
    NormalizeAll(Names(Get(fav_details, "genres")))
    \o NormalizeAll(Names(Take(Get(fav_credits, "cast"), 3)))
    \o NormalizeAll(SelectSeq(FirstDirector, LAMBDA n : n # <<>>))
    \o NormalizeAll(Names(Get(fav_keywords, "keywords")))

CleanToken(t) == \A k \in 1..Len(t) : t[k] # " " /\ t[k] \notin UpperChars

ScenarioBundle ==
    /\ fav_details = ScenarioDetails
    /\ fav_credits = ScenarioCredits
    /\ fav_keywords = ScenarioKeywords

ScenarioProfile ==
    <<"s","c","i","e","n","c","e","f","i","c","t","i","o","n"," ",
      "t","o","m","h","a","r","d","y"," ",
      "c","h","r","i","s","t","o","p","h","e","r","n","o","l","a","n"," ",
      "d","r","e","a","m">>

\* C8 as stated: the profile is the claimed tokens joined by single spaces,
\* the director token left out only when no crew entry is a Director.
C8_AsStated ==
    ExtractDone =>
        /\ favorite_features = Join(ClaimedTokens)
        /\ \A k \in 1..Len(ClaimedTokens) : CleanToken(ClaimedTokens[k])
        /\ ScenarioBundle => favorite_features = ScenarioProfile

\* C8 amended: the profile is the genre tokens, the first three cast tokens,
\* the first Director's token unless there is none or its name is empty, and
\* the keyword tokens, joined by single spaces; no token holds a space or an
\* uppercase letter; the scenario bundle yields the scenario profile.
C8_ExtractProfile ==
    ExtractDone =>
        /\ favorite_features = Join(AmendedTokens)
        /\ \A k \in 1..Len(AmendedTokens) : CleanToken(AmendedTokens[k])
        /\ ScenarioBundle => favorite_features = ScenarioProfile

\* C8's case: the scenario bundle was extracted
C8_Witness == ExtractDone /\ ScenarioBundle /\ favorite_features = ScenarioProfile

\* --- C9

\* C9: the listing loop requests pages 1, 2, 3, ... in order, never a page
\* once max_search_results summaries are held, never a page beyond 25, and
\* nothing after a request that brought no data or no results.
C9_ListingLoop ==
    /\ Len(requested) <= 25
    /\ \A j \in 1..Len(requested) :
        /\ requested[j].page = j
        /\ requested[j].page <= 25
        /\ requested[j].have < max_search_results
        /\ j < Len(requested) => requested[j].got = "page"
    /\ (Len(requested) > 0 /\ requested[Len(requested)].got \in {"none", "empty"})
           => pc # "listing"
    /\ page = 1 + Cardinality({j \in 1..Len(requested) : requested[j].got = "page"})

\* C9's case: the ceiling ended the loop, fewer summaries held than wanted
C9_Witness ==
    /\ pc = "candidates"
    /\ page = 26
    /\ Len(requested) = 25
    /\ requested[25].got = "page"
    /\ Len(all_movies) < max_search_results

\* --- the pipeline claims

Ended == outcome # "running"
Returned == outcome = "returned"
Raised == outcome \in {"KeyError", "ValueError"}

\* C1: no exception leaves get_recommendations, whatever the Gateway
\* returns and whichever keys its records lack; the call ends by returning a
\* list.
C1_NoExceptionEscapes == Ended => Returned

\* --- C2

YieldedNoData(p) == p.kind # "unset" /\ ~Truthy(p)

\* search_movie returned (None, None)
SearchNoMatch ==
    \/ YieldedNoData(search_data)
    \/ Truthy(search_data) /\ "results" \in search_data.has /\ search_data.results = <<>>

ReferenceNoData ==
    YieldedNoData(fav_details) \/ YieldedNoData(fav_credits) \/ YieldedNoData(fav_keywords)

ReferenceProfileEmpty ==
    /\ Truthy(fav_details) /\ Truthy(fav_credits) /\ Truthy(fav_keywords)
    /\ extract_features(fav_details, fav_credits, fav_keywords) = [exc |-> FALSE, val |-> <<>>]

\* the listing loop has ended and no summary but the reference's is left
PoolEmpty ==
    /\ pc = "filter" /\ Ended
    /\ \A k \in 1..Len(all_movies) :
        "id" \in all_movies[k].has /\ all_movies[k].id = favorite_movie_id

Skipped(f) == ~f.exc /\ (~f.data \/ f.features = <<>>)

EveryCandidateSkipped ==
    /\ all_movies_filtered # <<>>
    /\ Len(fetched) = Len(all_movies_filtered)
    /\ \A j \in 1..Len(fetched) : Skipped(fetched[j])

\* C2: every failure kind ends in the empty list with the vectorizer never
\* called; a failed search, a reference fetch without data and an empty
\* reference profile also end before any popular page or candidate is fetched.
C2_FailuresReturnEmpty ==
    /\ (Ended /\ (SearchNoMatch \/ ReferenceNoData \/ ReferenceProfileEmpty)) =>
        /\ Returned /\ result = <<>> /\ ~ranked
        /\ requested = <<>> /\ fetched = <<>>
    /\ PoolEmpty => Returned /\ result = <<>> /\ ~ranked /\ fetched = <<>>
    /\ (Ended /\ EveryCandidateSkipped) => Returned /\ result = <<>> /\ ~ranked

\* C2's case: two candidates, one without data and one with an empty
\* profile, and the call has ended
C2_Witness ==
    /\ Ended /\ EveryCandidateSkipped
    /\ Len(fetched) = 2
    /\ ~fetched[1].data
    /\ fetched[2].data /\ fetched[2].features = <<>>
    /\ result = <<>>

\* --- C3

FromRanking == Returned /\ ranked

\* C3 as stated: for every integer k the list returned from the ranking step
\* has exactly min(k, |corpus| - 1) titles.
C3_AsStated ==
    FromRanking => Len(result) = Min(num_recommendations, Len(df) - 1)

\* C3 amended: for k >= 0 the list returned from the ranking step has exactly
\* min(k, |corpus| - 1) titles; for k < 0 it has max(0, |corpus| - 1 + k).
C3_ResultLength ==
    FromRanking =>
        Len(result) = IF num_recommendations >= 0
                      THEN Min(num_recommendations, Len(df) - 1)
                      ELSE Max(0, Len(df) - 1 + num_recommendations)

\* C3's case: three were asked for, two candidates exist, both are returned
C3_Witness ==
    /\ FromRanking
    /\ num_recommendations = 3
    /\ Len(df) = 3
    /\ Len(result) = 2

\* --- C4

\* the scores of the corpus df, computed again from its rows
ScoresOfDf ==
    LET m == TfidfMatrix(TermLists([j \in 1..Len(df) |-> df[j].features]))
    IN [j \in 1..(Len(df) - 1) |-> Score(m, j + 1)]

\* C4: the titles returned follow non-increasing score, candidates of equal
\* score keep their corpus order, and every candidate, those of score 0
\* too, is ranked.
C4_RankedOrder ==
    FromRanking =>
        /\ Len(sim_scores) = Len(df) - 1
        /\ {sim_scores[a].idx : a \in 1..Len(sim_scores)} = 1..(Len(df) - 1)
        /\ \A a \in 1..Len(sim_scores) : sim_scores[a].score = ScoresOfDf[sim_scores[a].idx]
        /\ \A a, b \in 1..Len(sim_scores) :
            a < b =>
                \/ ScoreGreater(sim_scores[a].score, sim_scores[b].score)
                \/ /\ ScoreEqual(sim_scores[a].score, sim_scores[b].score)
                   /\ sim_scores[a].idx < sim_scores[b].idx
        /\ Len(recommended_indices) <= Len(sim_scores)
        /\ \A a \in 1..Len(recommended_indices) :
            /\ recommended_indices[a] = sim_scores[a].idx
            /\ result[a] = df[recommended_indices[a] + 1].title

\* C4's case: the first candidate scores 0, the next two tie above it; all
\* three are returned, the tie in corpus order, the 0 last
C4_Witness ==
    /\ FromRanking
    /\ recommended_indices = <<2, 3, 1>>
    /\ ScoreEqual(sim_scores[1].score, sim_scores[2].score)
    /\ sim_scores[3].score.num = 0
    /\ result[1] # result[2]

\* --- C5

\* C5: no candidate row has the reference's id, the reference is row 0 of
\* the corpus only, and index 0 is never recommended.
C5_ReferenceExcluded ==
    /\ \A j \in 1..Len(all_movies_filtered) : all_movies_filtered[j].id # favorite_movie_id
    /\ \A j \in 1..Len(movie_data) : movie_data[j].id # favorite_movie_id
    /\ df # <<>> =>
        /\ df[1].id = favorite_movie_id
        /\ \A j \in 2..Len(df) : df[j].id # favorite_movie_id
    /\ \A a \in 1..Len(recommended_indices) :
        /\ recommended_indices[a] \in 1..(Len(df) - 1)
        /\ df[recommended_indices[a] + 1].id # favorite_movie_id

\* C5's case: the popular listing held the reference twice, and a ranking
\* of the other movie was returned
C5_Witness ==
    /\ FromRanking
    /\ Cardinality({k \in 1..Len(all_movies) : all_movies[k].id = favorite_movie_id}) = 2
    /\ result # <<>>

\* --- C6

\* C6: an id listed more than once gives at most one candidate row, and its
\* title is returned at most once.
C6_Deduplicated ==
    /\ \A i, j \in 1..Len(movie_data) : i # j => movie_data[i].id # movie_data[j].id
    /\ \A a, b \in 1..Len(result) : a # b => result[a] # result[b]

\* --- C10

Included(f) == f.data /\ ~f.exc /\ f.features # <<>>

\* the filtered candidates processed so far whose fetches all brought data
\* and whose profile is not empty, in listing order
ExpectedRows ==
    LET picked == SelectSeq([j \in 1..Len(fetched) |-> j], LAMBDA j : Included(fetched[j]))
    IN [a \in 1..Len(picked) |->
          Row(all_movies_filtered[picked[a]].id, all_movies_filtered[picked[a]].title,
              fetched[picked[a]].features)]

\* C10: while the build has not raised, the candidate rows are exactly the
\* processed candidates whose three fetches brought data and whose profile is
\* not empty, each decided by its own fetches, in listing order; a skipped
\* candidate leaves the build running; the corpus is the reference row and
\* then these rows.
C10_CorpusBuild ==
    /\ ~Raised => movie_data = ExpectedRows
    /\ (pc = "candidates" /\ fetched # <<>> /\ Skipped(fetched[Len(fetched)])) => ~Ended
    /\ df # <<>> =>
        /\ df[1] = Row(favorite_movie_id, favorite_movie_name, favorite_features)
        /\ SubSeq(df, 2, Len(df)) = ExpectedRows
        /\ Len(fetched) = Len(all_movies_filtered)

\* C10's case: of three candidates the middle one was skipped, and the corpus
\* holds the reference, the first and the third
C10_Witness ==
    /\ Len(fetched) = 3
    /\ Included(fetched[1]) /\ Skipped(fetched[2]) /\ Included(fetched[3])
    /\ Len(df) = 3
    /\ df[2].id # df[3].id
    /\ df[2].id = all_movies_filtered[1].id /\ df[3].id = all_movies_filtered[3].id

====
